---- MODULE Spec2Model ----
(***************************************************************************)
(* Model of pyfso: the mesh (BaseMesh.create_grid), the beam parameters    *)
(* (BaseBeam.compute_optical_params), the Bessel-Gauss beam (BesselGauss), *)
(* the thin film mask (ThinFilm.create) and the coordinate transforms      *)
(* (cart2pol / pol2cart).                                                  *)
(*                                                                         *)
(* Numbers.  The code computes in floating point; the model computes in    *)
(* integers:                                                               *)
(*   - a real number v (a coordinate, a radius, an angle, a transmittance) *)
(*     is the integer nearest to 10000 v, written Fix(1) for 1.0; lengths  *)
(*     of the grid are in mm and angles in rad, so PI = 31416 and PI/2,    *)
(*     PI/4 are whole numbers;                                             *)
(*   - the beam parameters are whole numbers of their own units:           *)
(*     wave_length in nm, beam_waist and beam_width in um, z_coor and      *)
(*     rayleigh_range in mm, wave_number and kt in rad/mm;                 *)
(*   - n_samples / 2 is a half-integer for odd n_samples: np.arange is     *)
(*     modelled on the doubled values.                                     *)
(* Arrays are functions over 0..len-1, 2-D arrays functions of functions   *)
(* (row, then column), as numpy indexes them.                              *)
(***************************************************************************)
EXTENDS Integers, Sequences, FiniteSets, TLC

VARIABLES
    mesh,    \* the BaseMesh object (its attributes), or NoObject
    beam,    \* the BesselGauss object, or NoObject
    film,    \* the ThinFilm object, or NoObject
    args,    \* the arguments of the last constructor call
    coords,  \* the last cart2pol / pol2cart calls: arguments and results
    op,      \* the last operation performed
    calls,   \* method calls made on the object since its construction
    err      \* the exception the last operation raised, or "none"

vars == <<mesh, beam, film, args, coords, op, calls, err>>

----------------------------------------------------------------------------
(* Bounds of the model *)

\* n_samples passed to a constructor ranges over 1..MaxN
MaxN == 4
\* the default n_samples of the constructors.  The source's default is 1023
\* (src/pyfso/core.py:20); the model scales it down so that the
\* (n_samples+1) x (n_samples+1) arrays stay enumerable.  No formula below
\* depends on its value.
DefaultNSamples == 3
\* method calls and attribute assignments made after a construction
MaxCalls == 3
\* grid_length passed to BaseMesh ranges over 1..MaxGridLength (mm)
MaxGridLength == 5
\* the coordinates tried for cart2pol are the multiples of 0.5 in
\* -MaxCoord/2 .. MaxCoord/2
MaxCoord == 4

\* default grid_length: 5.0e-3 m = 5 mm
DefaultGridLength == 5
\* default wave_length: 532e-9 m = 532 nm
DefaultWaveLength == 532
\* default beam_waist: (0.57e-3)/2 m = 285 um
DefaultBeamWaist == 285
\* default z_coor: 0.0
DefaultZCoor == 0
\* default angular_momentum: 5.0
DefaultAngularMomentum == 5

----------------------------------------------------------------------------
(* Fixed-point arithmetic standing for numpy's floating point *)

\* the real number v in the fixed-point unit
Fix(v) == v * 10000

\* np.pi, in units of 1/10000 rad
PI == 31416

Abs(v) == IF v < 0 THEN -v ELSE v

Sign(v) == IF v < 0 THEN -1 ELSE IF v > 0 THEN 1 ELSE 0

\* a / b rounded to the nearest integer, symmetric in the sign (b > 0)
RDiv(a, b) == Sign(a) * ((2 * Abs(a) + b) \div (2 * b))

RECURSIVE SqrtIter(_, _, _)
SqrtIter(v, lo, hi) ==
    IF hi - lo <= 1 THEN lo
    ELSE LET mid == (lo + hi) \div 2
         IN  IF mid * mid <= v THEN SqrtIter(v, mid, hi) ELSE SqrtIter(v, lo, mid)

\* np.sqrt on a non-negative integer: the integer part of the root
Sqrt(v) == IF v <= 0 THEN 0 ELSE SqrtIter(v, 0, 46341)

\* t / (1 + sqrt(1 + t^2)) = tan(arctan(t) / 2), for 0 <= t <= 1.0
HalfAngleTan(t) == RDiv(Fix(1) * t, Fix(1) + Sqrt(Fix(1) * Fix(1) + t * t))

\* arctan(t) = t - t^3/3 + t^5/5 - t^7/7 for a small t (t <= 0.2)
ArctanSeries(t) ==
    LET t2 == RDiv(t * t, Fix(1))
        t3 == RDiv(t * t2, Fix(1))
        t5 == RDiv(t3 * t2, Fix(1))
        t7 == RDiv(t5 * t2, Fix(1))
    IN  t - RDiv(t3, 3) + RDiv(t5, 5) - RDiv(t7, 7)

\* arctan(num/den) for 0 <= num <= den, den > 0: exactly 0 at 0 and pi/4 at
\* 1, and within 0.001 rad in between (two angle halvings, then the series)
ArctanUnit(num, den) ==
    IF num = 0 THEN 0
    ELSE IF num = den THEN PI \div 4
    ELSE 4 * ArctanSeries(HalfAngleTan(HalfAngleTan(RDiv(Fix(1) * num, den))))

\* arctan2 for y >= 0 and x >= 0, not both 0
ArctanQuadrant(y, x) ==
    IF y <= x THEN ArctanUnit(y, x) ELSE (PI \div 2) - ArctanUnit(x, y)

\* np.arctan2(y, x): the angle of (x, y) in (-pi, pi]; arctan2(0, 0) = 0
arctan2(y, x) ==
    IF x = 0 /\ y = 0 THEN 0
    ELSE IF y >= 0
         THEN IF x >= 0 THEN ArctanQuadrant(y, x) ELSE PI - ArctanQuadrant(y, -x)
         ELSE IF x >= 0 THEN -ArctanQuadrant(-y, x) ELSE -(PI - ArctanQuadrant(-y, -x))

\* the angle a brought into [-pi, pi] by whole turns
RECURSIVE WrapAngle(_)
WrapAngle(a) ==
    IF a > PI THEN WrapAngle(a - 2 * PI)
    ELSE IF a < -PI THEN WrapAngle(a + 2 * PI)
    ELSE a

\* sum of the Taylor series whose current term is term: the next term is
\* -term * a2 / ((k+1)(k+2))
RECURSIVE Taylor(_, _, _, _)
Taylor(term, a2, k, left) ==
    IF left = 0 THEN 0
    ELSE term + Taylor(-RDiv(RDiv(term * a2, Fix(1)), (k + 1) * (k + 2)), a2, k + 2, left - 1)

\* sin of an angle in [-pi/2, pi/2]
SinSeries(a) == Taylor(a, RDiv(a * a, Fix(1)), 1, 6)

\* np.sin, argument and result in units of 1/10000
sin(a) ==
    LET w == WrapAngle(a)
    IN  IF w > PI \div 2 THEN SinSeries(PI - w)
        ELSE IF w < -(PI \div 2) THEN SinSeries(-PI - w)
        ELSE SinSeries(w)

\* np.cos, argument and result in units of 1/10000
cos(a) == sin(a + PI \div 2)

----------------------------------------------------------------------------
(* pyfso.utils.coords *)

\* faulty variant of cart2pol: y * 2 in place of y ** 2
cart2pol_unsquared(x, y) ==
    LET rho == Sqrt(x * x + y * 2)
        phi == arctan2(y, x)
    IN  <<phi, rho>>

\* cart2pol(x, y) on scalars: returns the pair (phi, rho)
cart2pol(x, y) ==
    LET rho == Sqrt(x * x + y * y)
        phi == arctan2(y, x)
    IN  <<phi, rho>>

\* pol2cart(rho, phi) on scalars: returns the pair (x, y).  rho is a plain
\* number, phi an angle in units of 1/10000 rad
pol2cart(rho, phi) ==
    LET x == RDiv(rho * cos(phi), Fix(1))
        y == RDiv(rho * sin(phi), Fix(1))
    IN  <<x, y>>

----------------------------------------------------------------------------
(* Objects: a Python object is the function from its attribute names to    *)
(* their values                                                            *)

NoObject == [cls |-> "None"]

Exists(self) == self.cls # "None"

HasAttr(self, name) == name \in DOMAIN self

\* self after the assignments self.<k> = attrs[k]
SetAttrs(self, attrs) ==
    [k \in DOMAIN self \cup DOMAIN attrs |->
        IF k \in DOMAIN attrs THEN attrs[k] ELSE self[k]]

----------------------------------------------------------------------------
(* numpy *)

\* number of elements of np.arange(start, stop, step)
ArangeLen(start, stop, step) ==
    IF step > 0
    THEN (IF stop > start THEN (stop - start + step - 1) \div step ELSE 0)
    ELSE (IF stop < start THEN (start - stop - step - 1) \div (-step) ELSE 0)

\* np.arange(start, stop, step)
Arange(start, stop, step) ==
    [k \in 0 .. (ArangeLen(start, stop, step) - 1) |-> start + k * step]

\* len(a)
len(a) == Cardinality(DOMAIN a)

\* the shape of a 2-D array
Shape(a) == <<len(a), IF len(a) = 0 THEN 0 ELSE len(a[0])>>

\* np.meshgrid(x, y): the pair (xx, yy), both of shape (len(y), len(x))
meshgrid(x, y) ==
    << [i \in DOMAIN y |-> [j \in DOMAIN x |-> x[j]]],
       [i \in DOMAIN y |-> [j \in DOMAIN x |-> y[i]]] >>

\* np.rot90(m): m turned a quarter turn counter-clockwise; the element at
\* (i, j) of the result is the element at (j, cols - 1 - i) of m
rot90(m) ==
    LET rows == Shape(m)[1]
        cols == Shape(m)[2]
    IN  [i \in 0 .. (cols - 1) |-> [j \in 0 .. (rows - 1) |-> m[j][cols - 1 - i]]]

\* np.ones(shape)
ones(rows, cols) == [i \in 0 .. (rows - 1) |-> [j \in 0 .. (cols - 1) |-> Fix(1)]]

----------------------------------------------------------------------------
(* pyfso.core: BaseMesh *)

\* faulty variant of GridSpacing: the length divided by the number of points
GridSpacing_per_point(grid_length, n_samples) == RDiv(Fix(grid_length), n_samples + 1)

\* self.grid_length / self.n_samples
GridSpacing(grid_length, n_samples) == RDiv(Fix(grid_length), n_samples)

\* the arrays of create_grid up to cart2pol (lines 29-38), before the
\* quarter turn of phi.  The arguments of np.arange are n_samples/2-based, so
\* Arange runs on the doubled values and the product with grid_spacing is
\* halved
GridArrays(self) ==
    LET n    == self.n_samples
        ax   == Arange(-n, n + 2, 2)
        ay   == Arange(n, -n - 2, -2)
        x    == [k \in DOMAIN ax |-> RDiv(ax[k] * self.grid_spacing, 2)]
        y    == [k \in DOMAIN ay |-> RDiv(ay[k] * self.grid_spacing, 2)]
        xxyy == meshgrid(x, y)
        xx   == xxyy[1]
        yy   == xxyy[2]
    IN  [x |-> x, y |-> y, xx |-> xx, yy |-> yy,
         phi |-> [i \in DOMAIN xx |-> [j \in DOMAIN xx[i] |-> cart2pol(xx[i][j], yy[i][j])[1]]],
         rho |-> [i \in DOMAIN xx |-> [j \in DOMAIN xx[i] |-> cart2pol(xx[i][j], yy[i][j])[2]]]]

\* faulty variant of create_grid: phi is left as cart2pol returns it
create_grid_unrotated(self) == SetAttrs(self, GridArrays(self))

\* faulty variant of create_grid: the quarter turn is applied to the phi the
\* object already holds, when it holds one
create_grid_accumulating(self) ==
    LET g == GridArrays(self)
    IN  SetAttrs(self, [g EXCEPT !.phi = IF HasAttr(self, "phi") THEN rot90(self.phi)
                                                                ELSE rot90(g.phi)])

\* BaseMesh.create_grid(self): self after its assignments
create_grid(self) ==
    LET g == GridArrays(self)
    IN  SetAttrs(self, [g EXCEPT !.phi = rot90(g.phi)])

\* BaseMesh.__init__(self, n_samples, grid_length)
BaseMesh__init__(self, n_samples, grid_length) ==
    create_grid(SetAttrs(self, [n_samples    |-> n_samples,
                                grid_length  |-> grid_length,
                                grid_spacing |-> GridSpacing(grid_length, n_samples)]))

----------------------------------------------------------------------------
(* pyfso.core: BaseBeam *)

\* faulty variant of compute_optical_params: beam_width is computed from the
\* rayleigh_range the object already holds, when it holds one
compute_optical_params_stale_range(self) ==
    LET wave_number    == RDiv(2 * PI * 100, self.wave_length)
        rayleigh_range == RDiv(RDiv(PI * self.beam_waist, 100) * self.beam_waist,
                               100 * self.wave_length)
        used_range     == IF HasAttr(self, "rayleigh_range") THEN self.rayleigh_range
                                                             ELSE rayleigh_range
        ratio          == RDiv(Fix(1) * self.z_coor, used_range)
        beam_width     == RDiv(self.beam_waist
                                 * Sqrt(Fix(1) * (Fix(1) + RDiv(ratio * ratio, Fix(1)))),
                               Fix(1))
    IN  SetAttrs(self, [wave_number    |-> wave_number,
                        rayleigh_range |-> rayleigh_range,
                        beam_width     |-> beam_width,
                        kt             |-> RDiv(wave_number, 500)])

\* BaseBeam.compute_optical_params(self).  pi * beam_waist^2 is formed in two
\* steps to stay within TLC's integers
compute_optical_params(self) ==
    LET wave_number    == RDiv(2 * PI * 100, self.wave_length)
        rayleigh_range == RDiv(RDiv(PI * self.beam_waist, 100) * self.beam_waist,
                               100 * self.wave_length)
        ratio          == RDiv(Fix(1) * self.z_coor, rayleigh_range)
        beam_width     == RDiv(self.beam_waist
                                 * Sqrt(Fix(1) * (Fix(1) + RDiv(ratio * ratio, Fix(1)))),
                               Fix(1))
    IN  SetAttrs(self, [wave_number    |-> wave_number,
                        rayleigh_range |-> rayleigh_range,
                        beam_width     |-> beam_width,
                        kt             |-> RDiv(wave_number, 500)])

\* BaseBeam.__init__(self, n_samples, grid_length, wave_length,
\* angular_momentum, beam_waist, z_coor): BaseMesh.__init__(self) is called
\* without arguments, so with BaseMesh's defaults
BaseBeam__init__(self, a) ==
    LET s1 == SetAttrs(self, [n_samples        |-> a.n_samples,
                              grid_length      |-> a.grid_length,
                              wave_length      |-> a.wave_length,
                              angular_momentum |-> a.angular_momentum,
                              beam_waist       |-> a.beam_waist,
                              z_coor           |-> a.z_coor,
                              grid_spacing     |-> GridSpacing(a.grid_length, a.n_samples)])
        s2 == BaseMesh__init__(s1, DefaultNSamples, DefaultGridLength)
        s3 == create_grid(s2)
    IN  compute_optical_params(s3)

\* the default arguments of BaseBeam.__init__
BaseBeamDefaults ==
    [n_samples        |-> DefaultNSamples,
     grid_length      |-> DefaultGridLength,
     wave_length      |-> DefaultWaveLength,
     angular_momentum |-> DefaultAngularMomentum,
     beam_waist       |-> DefaultBeamWaist,
     z_coor           |-> DefaultZCoor]

----------------------------------------------------------------------------
(* pyfso.oam.bessel_gauss: BesselGauss *)

\* BesselGauss.__init__(self, ..., kind): super().__init__() is called
\* without arguments, so BaseBeam.__init__ runs with its defaults
BesselGauss__init__(a) ==
    LET s1 == [cls              |-> "BesselGauss",
               n_samples        |-> a.n_samples,
               grid_length      |-> a.grid_length,
               wave_length      |-> a.wave_length,
               angular_momentum |-> a.angular_momentum,
               beam_waist       |-> a.beam_waist,
               z_coor           |-> a.z_coor,
               kind             |-> a.kind]
    IN  BaseBeam__init__(s1, BaseBeamDefaults)

\* the kinds BesselGauss.create has a branch for
SupportedKinds == {"Jv", "Iv"}

\* the array self.E that BesselGauss.create assigns for a supported kind: an
\* element-wise product over self.rho and self.phi.  The Bessel functions and
\* the complex exponentials are not computed: an element records the kind and
\* the arguments (angular_momentum, rho, phi) it is computed from
FieldE(self) ==
    [i \in DOMAIN self.rho |-> [j \in DOMAIN self.rho[i] |->
        [kind |-> self.kind, m |-> self.angular_momentum,
         rho |-> self.rho[i][j], phi |-> self.phi[i][j]]]]

\* faulty variant of CreateRaises: no kind is rejected
CreateRaises_never(self) == "none"

\* the exception BesselGauss.create raises, or "none"
CreateRaises(self) == IF self.kind \in SupportedKinds THEN "none" ELSE "ValueError"

\* BesselGauss.create(self): self afterwards
BesselGauss_create(self) ==
    IF self.kind \in SupportedKinds THEN SetAttrs(self, [E |-> FieldE(self)]) ELSE self

----------------------------------------------------------------------------
(* pyfso.films.thin_film: ThinFilm *)

\* faulty variant of CellOpen: the threshold angle is not tested
CellOpen_no_threshold(self, i, j) ==
    /\ self.yy[i][j] >= 0
    /\ self.xx[i][j] * self.xx[i][j] + self.yy[i][j] * self.yy[i][j] <= self.r * self.r
    /\ self.phi[i][j] <= PI \div 2

\* the test of ThinFilm.create on the cell (i, j)
CellOpen(self, i, j) ==
    /\ self.yy[i][j] >= 0
    /\ self.xx[i][j] * self.xx[i][j] + self.yy[i][j] * self.yy[i][j] <= self.r * self.r
    /\ self.phi[i][j] <= PI \div 2
    /\ self.angle <= self.phi[i][j]

\* ThinFilm.create(self): the mask self.c_mask, which is also returned.  It
\* starts as np.ones((len(xx), len(yy))) and the two loops over
\* range(len(xx)) assign every cell they visit
ThinFilm_create(self) ==
    LET c_mask == ones(len(self.xx), len(self.yy))
    IN  SetAttrs(self,
            [c_mask |-> [i \in DOMAIN c_mask |-> [j \in DOMAIN c_mask[i] |->
                IF i < len(self.xx) /\ j < len(self.xx)
                THEN (IF CellOpen(self, i, j) THEN Fix(1) ELSE self.transmittance)
                ELSE c_mask[i][j]]]])

\* ThinFilm.__init__(self, n_samples, grid_length, r, angle, transmittance):
\* super().__init__() is called without arguments, so BaseMesh.__init__ runs
\* with its defaults
ThinFilm__init__(a) ==
    LET s1 == [cls           |-> "ThinFilm",
               n_samples     |-> a.n_samples,
               grid_length   |-> a.grid_length,
               r             |-> a.r,
               angle         |-> a.angle,
               transmittance |-> a.transmittance,
               grid_spacing  |-> GridSpacing(a.grid_length, a.n_samples)]
    IN  BaseMesh__init__(s1, DefaultNSamples, DefaultGridLength)

----------------------------------------------------------------------------
(* The inputs tried *)

NSamplesSet == 1 .. MaxN

GridLengthSet == 1 .. MaxGridLength

WaveLengthSet == {DefaultWaveLength, 633}

BeamWaistSet == {DefaultBeamWaist, 500}

ZCoorSet == {DefaultZCoor, 480, -480}

AngularMomentumSet == {DefaultAngularMomentum, 3}

KindSet == {"Jv", "Iv", "Xv"}

RadiusSet == {Fix(1), Fix(2), -Fix(2), Fix(4)}

AngleSet == {0, PI \div 4, PI \div 2, -(PI \div 2)}

TransmittanceSet == {0, Fix(1) \div 5}

CoordSet == {k * (Fix(1) \div 2) : k \in (-MaxCoord) .. MaxCoord}

NoArgs == [cls |-> "None"]

NoCoords == [step |-> "none"]

----------------------------------------------------------------------------
(* A run constructs one object and then calls its methods.                 *)
(* Operations on a mesh: BaseMesh(n_samples, grid_length), create_grid()   *)

NewBaseMesh(n, gl) ==
    /\ op = "none"
    /\ mesh' = BaseMesh__init__([cls |-> "BaseMesh"], n, gl)
    /\ args' = [cls |-> "BaseMesh", n_samples |-> n, grid_length |-> gl]
    /\ op' = "BaseMesh"
    /\ calls' = 0
    /\ err' = "none"
    /\ UNCHANGED <<beam, film, coords>>

MeshCreateGrid ==
    /\ Exists(mesh)
    /\ calls < MaxCalls
    /\ mesh' = create_grid(mesh)
    /\ op' = "create_grid"
    /\ calls' = calls + 1
    /\ err' = "none"
    /\ UNCHANGED <<beam, film, args, coords>>

----------------------------------------------------------------------------
(* Operations on a thin film: ThinFilm(...), create_grid(), create() *)

NewThinFilm(a) ==
    /\ op = "none"
    /\ film' = ThinFilm__init__(a)
    /\ args' = a
    /\ op' = "ThinFilm"
    /\ calls' = 0
    /\ err' = "none"
    /\ UNCHANGED <<mesh, beam, coords>>

FilmCreateGrid ==
    /\ Exists(film)
    /\ calls < MaxCalls
    /\ film' = create_grid(film)
    /\ op' = "create_grid"
    /\ calls' = calls + 1
    /\ err' = "none"
    /\ UNCHANGED <<mesh, beam, args, coords>>

FilmCreate ==
    /\ Exists(film)
    /\ calls < MaxCalls
    /\ film' = ThinFilm_create(film)
    /\ op' = "create"
    /\ calls' = calls + 1
    /\ err' = "none"
    /\ UNCHANGED <<mesh, beam, args, coords>>

ThinFilmArgs ==
    [cls : {"ThinFilm"}, n_samples : {2, MaxN}, grid_length : {2},
     r : RadiusSet, angle : AngleSet, transmittance : TransmittanceSet]

----------------------------------------------------------------------------
(* Operations on a beam: BesselGauss(...), attribute assignment,           *)
(* compute_optical_params(), create_grid(), create()                       *)

BesselGaussArgs ==
    [cls : {"BesselGauss"}, n_samples : {2, MaxN}, grid_length : {2},
     wave_length : WaveLengthSet, angular_momentum : AngularMomentumSet,
     beam_waist : BeamWaistSet, z_coor : ZCoorSet, kind : KindSet]

NewBesselGauss(a) ==
    /\ op = "none"
    /\ beam' = BesselGauss__init__(a)
    /\ args' = a
    /\ op' = "BesselGauss"
    /\ calls' = 0
    /\ err' = "none"
    /\ UNCHANGED <<mesh, film, coords>>

\* beam.<name> = value, for an input parameter of the beam
BeamSetAttr(name, value) ==
    /\ Exists(beam)
    /\ calls < MaxCalls
    /\ beam' = SetAttrs(beam, [k \in {name} |-> value])
    /\ op' = "setattr"
    /\ calls' = calls + 1
    /\ err' = "none"
    /\ UNCHANGED <<mesh, film, args, coords>>

BeamComputeOpticalParams ==
    /\ Exists(beam)
    /\ calls < MaxCalls
    /\ beam' = compute_optical_params(beam)
    /\ op' = "compute_optical_params"
    /\ calls' = calls + 1
    /\ err' = "none"
    /\ UNCHANGED <<mesh, film, args, coords>>

BeamCreateGrid ==
    /\ Exists(beam)
    /\ calls < MaxCalls
    /\ beam' = create_grid(beam)
    /\ op' = "create_grid"
    /\ calls' = calls + 1
    /\ err' = "none"
    /\ UNCHANGED <<mesh, film, args, coords>>

BeamCreate ==
    /\ Exists(beam)
    /\ calls < MaxCalls
    /\ beam' = BesselGauss_create(beam)
    /\ err' = CreateRaises(beam)
    /\ op' = "create"
    /\ calls' = calls + 1
    /\ UNCHANGED <<mesh, film, args, coords>>

----------------------------------------------------------------------------
(* The coordinate transforms as a caller uses them *)

\* pr = cart2pol(x, y)
CallCart2Pol(x, y) ==
    /\ coords' = [step |-> "cart2pol", x |-> x, y |-> y, pr |-> cart2pol(x, y)]
    /\ op' = "cart2pol"
    /\ UNCHANGED <<mesh, beam, film, args, calls, err>>

\* back = pol2cart(*pr): the elements of the tuple pr are the positional
\* arguments, in order
CallPol2CartStar ==
    /\ coords.step = "cart2pol"
    /\ coords' = [step |-> "pol2cart", x |-> coords.x, y |-> coords.y, pr |-> coords.pr,
                  back |-> pol2cart(coords.pr[1], coords.pr[2])]
    /\ op' = "pol2cart"
    /\ UNCHANGED <<mesh, beam, film, args, calls, err>>

----------------------------------------------------------------------------
(* Specifications *)

Init ==
    /\ mesh = NoObject
    /\ beam = NoObject
    /\ film = NoObject
    /\ args = NoArgs
    /\ coords = NoCoords
    /\ op = "none"
    /\ calls = 0
    /\ err = "none"

\* meshes and thin films
NextGrid ==
    \/ \E n \in NSamplesSet, gl \in GridLengthSet : NewBaseMesh(n, gl)
    \/ MeshCreateGrid
    \/ \E a \in ThinFilmArgs : NewThinFilm(a)
    \/ FilmCreateGrid
    \/ FilmCreate

SpecGrid == Init /\ [][NextGrid]_vars

\* beams
NextBeam ==
    \/ \E a \in BesselGaussArgs : NewBesselGauss(a)
    \/ \E v \in WaveLengthSet : BeamSetAttr("wave_length", v)
    \/ \E v \in BeamWaistSet : BeamSetAttr("beam_waist", v)
    \/ \E v \in ZCoorSet : BeamSetAttr("z_coor", v)
    \/ BeamComputeOpticalParams
    \/ BeamCreateGrid
    \/ BeamCreate

SpecBeam == Init /\ [][NextBeam]_vars

\* coordinate transforms
NextCoords ==
    \/ \E x \in CoordSet, y \in CoordSet : CallCart2Pol(x, y)
    \/ CallPol2CartStar

SpecCoords == Init /\ [][NextCoords]_vars

Next == NextGrid \/ NextBeam \/ NextCoords

Spec == Init /\ [][Next]_vars

----------------------------------------------------------------------------
(* Properties *)

\* the object a run constructed carries a grid
GridObjects == {o \in {mesh, beam, film} : Exists(o)}

\* the indices of the rows (and of the columns) of the grid of self
Idx(self) == 0 .. self.n_samples

\* a and b agree to the tolerance tol
Near(a, b, tol) == Abs(a - b) <= tol

\* some sample of the grid of self lies exactly at (0, 0)
HasCentreSample(self) ==
    \E i \in DOMAIN self.xx : \E j \in DOMAIN self.xx[i] :
        self.xx[i][j] = 0 /\ self.yy[i][j] = 0

\* the axis x of self has n_samples + 1 evenly spaced points spanning
\* [-grid_length/2, grid_length/2], to one unit of the fixed point
AxisSpansGrid(self) ==
    /\ len(self.x) = self.n_samples + 1
    /\ len(self.y) = self.n_samples + 1
    /\ Near(self.x[0], -(Fix(self.grid_length) \div 2), 1)
    /\ Near(self.x[self.n_samples], Fix(self.grid_length) \div 2, 1)
    /\ \A k \in 0 .. (self.n_samples - 1) :
          Near(self.x[k + 1] - self.x[k], self.grid_spacing, 1)

\* C1: a beam or a film constructed with n_samples = n has n_samples = n and
\* grid arrays of shape (n+1, n+1), and so have the Field E and the mask.
\* Stated as claimed; the code violates it (the constructors call
\* super().__init__() without arguments).
C1_ShapeFollowsPassedNSamples ==
    \A o \in {beam, film} : Exists(o) =>
        LET n == args.n_samples
        IN  /\ o.n_samples = n
            /\ \A a \in {o.xx, o.yy, o.rho, o.phi} : Shape(a) = <<n + 1, n + 1>>
            /\ HasAttr(o, "E") => Shape(o.E) = <<n + 1, n + 1>>
            /\ HasAttr(o, "c_mask") => Shape(o.c_mask) = <<n + 1, n + 1>>

\* C2: right after BesselGauss(wave_length = L, beam_waist = w0, z_coor = z)
\* the derived parameters are the formulas applied to the passed values, and
\* with z = 0 beam_width is the passed beam_waist.  Stated as claimed; the
\* code violates it.
C2_DerivedFromPassedValues ==
    op = "BesselGauss" =>
        LET k  == RDiv(2 * PI * 100, args.wave_length)
            zr == RDiv(RDiv(PI * args.beam_waist, 100) * args.beam_waist,
                       100 * args.wave_length)
            q  == RDiv(Fix(1) * args.z_coor, zr)
        IN  /\ beam.wave_number = k
            /\ beam.rayleigh_range = zr
            /\ beam.beam_width =
                  RDiv(args.beam_waist * Sqrt(Fix(1) * (Fix(1) + RDiv(q * q, Fix(1)))), Fix(1))
            /\ beam.kt = RDiv(k, 500)
            /\ args.z_coor = 0 => beam.beam_width = args.beam_waist

\* C3 as claimed: no BesselGauss object with an unsupported kind ever exists
\* (the constructor rejects it).  The code violates it.
C3_NoObjectOfUnsupportedKind ==
    Exists(beam) => beam.kind \in SupportedKinds

\* C3 amended: the constructor accepts any kind without an error; create()
\* rejects a kind outside {"Jv", "Iv"} with a ValueError, and an object of
\* such a kind never gets a field E; create() on a supported kind raises
\* nothing and assigns E.
C3_UnsupportedKindRejectedByCreate ==
    /\ op = "BesselGauss" => err = "none" /\ ~HasAttr(beam, "E")
    /\ Exists(beam) /\ beam.kind \notin SupportedKinds => ~HasAttr(beam, "E")
    /\ op = "create" /\ Exists(beam) =>
          IF beam.kind \in SupportedKinds
          THEN err = "none" /\ HasAttr(beam, "E")
          ELSE err = "ValueError"

C3_Witness ==
    op = "create" /\ Exists(beam) /\ beam.kind = "Xv" /\ err = "ValueError"

\* C4: for (x, y) # (0, 0), pol2cart(*cart2pol(x, y)) is (x, y) to a tolerance
\* of 0.01.  Stated as claimed; the code violates it (cart2pol returns
\* (phi, rho), pol2cart takes (rho, phi)).
C4_StarRoundTrip ==
    coords.step = "pol2cart" /\ (coords.x # 0 \/ coords.y # 0) =>
        /\ Near(coords.back[1], coords.x, Fix(1) \div 100)
        /\ Near(coords.back[2], coords.y, Fix(1) \div 100)

\* the mask of the film is 1.0 exactly in the cells whose angle lies in
\* [angle, pi/2], in the upper half plane and within the radius, and the
\* transmittance elsewhere, the angle of the cell (i, j) being Angle(i, j)
MaskIsWedge(Angle(_, _)) ==
    \A i \in Idx(film) : \A j \in Idx(film) :
        film.c_mask[i][j] =
            IF /\ film.yy[i][j] >= 0
               /\ film.xx[i][j] * film.xx[i][j] + film.yy[i][j] * film.yy[i][j]
                     <= film.r * film.r
               /\ Angle(i, j) <= PI \div 2
               /\ film.angle <= Angle(i, j)
            THEN Fix(1)
            ELSE film.transmittance

\* the polar angle of the position of the cell (i, j) of the film
OwnAngle(i, j) == arctan2(film.yy[i][j], film.xx[i][j])

\* the polar angle of the position of the cell (i, j) of the film, less a
\* quarter turn: the angle counted from the +y axis
ShiftedAngle(i, j) == arctan2(-film.xx[i][j], film.yy[i][j])

\* C5 as claimed: a cell of the mask is 1.0 iff y >= 0, rho <= |r|,
\* phi <= pi/2 and angle <= phi, with (rho, phi) the polar coordinates of the
\* cell's own position, and the transmittance otherwise.  The code violates it.
C5_WedgeInOwnPolarAngle ==
    HasAttr(film, "c_mask") => MaskIsWedge(OwnAngle)

\* C5 amended: the same with phi the polar angle of the cell's position less
\* a quarter turn, atan2(-x, y)
C5_WedgeInShiftedAngle ==
    HasAttr(film, "c_mask") => MaskIsWedge(ShiftedAngle)

\* a mask with angle = 0 where a cell at polar angle pi/4 within the radius
\* has the transmittance and a cell at polar angle 3 pi/4 has 1.0
C5_Witness ==
    /\ HasAttr(film, "c_mask")
    /\ film.angle = 0
    /\ \E i \in Idx(film) : \E j \in Idx(film) :
          /\ OwnAngle(i, j) = PI \div 4
          /\ film.xx[i][j] * film.xx[i][j] + film.yy[i][j] * film.yy[i][j] <= film.r * film.r
          /\ film.c_mask[i][j] = film.transmittance
    /\ \E i \in Idx(film) : \E j \in Idx(film) :
          /\ OwnAngle(i, j) = 3 * (PI \div 4)
          /\ film.c_mask[i][j] = Fix(1)

\* the derived parameters of the beam are the formulas applied to its
\* current wave_length, beam_waist and z_coor
DerivedAreCurrent ==
    LET k  == RDiv(2 * PI * 100, beam.wave_length)
        zr == RDiv(RDiv(PI * beam.beam_waist, 100) * beam.beam_waist,
                   100 * beam.wave_length)
        q  == RDiv(Fix(1) * beam.z_coor, zr)
    IN  /\ beam.wave_number = k
        /\ beam.rayleigh_range = zr
        /\ beam.beam_width =
              RDiv(beam.beam_waist * Sqrt(Fix(1) * (Fix(1) + RDiv(q * q, Fix(1)))), Fix(1))
        /\ beam.kt = RDiv(k, 500)

\* C6 as claimed: in every state reached by constructing a beam and changing
\* its input parameters, no derived parameter is stale.  The code violates it.
C6_DerivedNeverStale ==
    Exists(beam) => DerivedAreCurrent

\* C6 amended: the derived parameters are the formulas applied to the current
\* input attributes in every state in which no input attribute was assigned
\* since the last compute_optical_params() (the constructor makes one)
C6_DerivedCurrentAfterCompute ==
    Exists(beam) /\ (op = "BesselGauss" \/ op = "compute_optical_params")
        => DerivedAreCurrent

C6_Witness ==
    /\ op = "compute_optical_params"
    /\ beam.wave_length # DefaultWaveLength
    /\ beam.z_coor # DefaultZCoor
    /\ beam.beam_width > beam.beam_waist

\* C7 as claimed: the axis has n_samples + 1 evenly spaced points spanning
\* [-grid_length/2, grid_length/2]; an odd n_samples has a sample at (0, 0),
\* an even one has none.  The code violates it.
C7_OddNSamplesCentred ==
    \A o \in GridObjects :
        /\ AxisSpansGrid(o)
        /\ (o.n_samples % 2 = 1) <=> HasCentreSample(o)

\* C7 amended: the same axis; an even n_samples has a sample at (0, 0), an
\* odd one has none
C7_EvenNSamplesCentred ==
    \A o \in GridObjects :
        /\ AxisSpansGrid(o)
        /\ (o.n_samples % 2 = 0) <=> HasCentreSample(o)

C7_Witness ==
    /\ Exists(mesh)
    /\ mesh.n_samples = 2
    /\ mesh.grid_length = 3
    /\ mesh.xx[1][1] = 0 /\ mesh.yy[1][1] = 0
    /\ mesh.x[0] = -Fix(3) \div 2

\* C8: for every index (i, j) of the grid, xx[n-i, n-j] = -xx[i, j],
\* yy[n-i, n-j] = -yy[i, j], rho[n-i, n-j] = rho[i, j] and rho[i, j] >= 0
C8_GridSymmetry ==
    \A o \in GridObjects :
        LET n == o.n_samples
        IN  \A i \in Idx(o) : \A j \in Idx(o) :
              /\ o.xx[n - i][n - j] = -o.xx[i][j]
              /\ o.yy[n - i][n - j] = -o.yy[i][j]
              /\ o.rho[n - i][n - j] = o.rho[i][j]
              /\ o.rho[i][j] >= 0

C8_Witness ==
    /\ Exists(mesh)
    /\ mesh.n_samples = 3
    /\ mesh.xx[0][0] < 0 /\ mesh.xx[3][3] = -mesh.xx[0][0]
    /\ mesh.yy[0][0] > 0 /\ mesh.yy[3][3] = -mesh.yy[0][0]
    /\ mesh.rho[1][2] > 0 /\ mesh.rho[2][1] = mesh.rho[1][2]

\* C9: a create_grid call on a constructed object (whose constructor has
\* called it, twice for a beam) leaves x, y, xx, yy, rho and phi as they were:
\* the quarter turn of phi does not accumulate
C9_CreateGridIdempotent ==
    [][op' = "create_grid" =>
          \A name \in {"x", "y", "xx", "yy", "rho", "phi"} : beam'[name] = beam[name]]_vars

C9_Witness ==
    /\ op = "create_grid"
    /\ calls >= 2
    /\ Exists(beam)
    /\ beam.phi[0][0] # beam.phi[0][beam.n_samples]

\* C10: the stored phi[i, j] is atan2(-xx[i, j], yy[i, j]), so a cell with
\* yy[i, j] >= 0 has phi[i, j] in [-pi/2, pi/2], and the test phi <= pi/2 of
\* ThinFilm.create decides no cell of the mask: the mask is the one the other
\* three tests give
C10_PhiIsShiftedAngle ==
    /\ \A o \in GridObjects : \A i \in Idx(o) : \A j \in Idx(o) :
          /\ o.phi[i][j] = arctan2(-o.xx[i][j], o.yy[i][j])
          /\ o.yy[i][j] >= 0 =>
                -(PI \div 2) <= o.phi[i][j] /\ o.phi[i][j] <= PI \div 2
    /\ HasAttr(film, "c_mask") =>
          \A i \in Idx(film) : \A j \in Idx(film) :
              film.c_mask[i][j] =
                  IF /\ film.yy[i][j] >= 0
                     /\ film.xx[i][j] * film.xx[i][j] + film.yy[i][j] * film.yy[i][j]
                           <= film.r * film.r
                     /\ film.angle <= film.phi[i][j]
                  THEN Fix(1)
                  ELSE film.transmittance

\* a mask with an open cell and, in the upper half plane and within the
\* radius, a closed one
C10_Witness ==
    /\ HasAttr(film, "c_mask")
    /\ film.transmittance # Fix(1)
    /\ \E i \in Idx(film) : \E j \in Idx(film) : film.c_mask[i][j] = Fix(1)
    /\ \E i \in Idx(film) : \E j \in Idx(film) :
          /\ film.yy[i][j] >= 0
          /\ film.xx[i][j] * film.xx[i][j] + film.yy[i][j] * film.yy[i][j] <= film.r * film.r
          /\ film.c_mask[i][j] = film.transmittance

====
